---- MODULE Spec2Model ----
(***************************************************************************)
(* goeth: reconciliation of a declared address list against the live       *)
(* addresses of a link (internal/config), the interface and address diffs   *)
(* and the polling watcher (internal/monitor).                              *)
(*                                                                          *)
(* Four specifications share the module: Spec (Applier.Apply and            *)
(* NetlinkExecutor.Apply), SpecDiff (diffInterfaces and diffAddresses as    *)
(* functions of their arguments), SpecWatch (Watcher.Run and the monitor    *)
(* command around it) and SpecCmd (the apply-config command).               *)
(*                                                                          *)
(* A raw address string is represented by the sequence of its              *)
(* space-separated parts, i.e. by strings.Split(s, " "): the string        *)
(* "10.0.0.10/24 eth0" is <<"10.0.0.10/24", "eth0">>.                       *)
(* A parsed address (netlink.Addr) is a record [ip, bits, label]; a live    *)
(* address of the link is a record [ip, bits] (the code never reads the     *)
(* label of a listed address).                                              *)
(***************************************************************************)
EXTENDS Integers, Sequences, FiniteSets, TLC

VARIABLES
    iface,        \* cfg.Interface
    addrs,        \* cfg.Addresses: sequence of raw address strings
    entry,        \* "applier": Applier.Apply is called; "direct": NetlinkExecutor.Apply
    hasExecutor,  \* Applier.executor # nil
    hasProvider,  \* NetlinkExecutor.Provider # nil
    live,         \* live addresses of the link (provider state)
    pc,           \* position inside the running Apply
    result,       \* value returned by the running Apply ("none" while it runs)
    desired,      \* Apply's local map key -> Addr
    families,     \* Apply's local slice of families
    famIdx,       \* collectCurrent's loop index into families
    current,      \* collectCurrent's map key -> Addr
    addDone,      \* keys of desired already visited by the first loop
    delDone,      \* keys of current already visited by the second loop
    log,          \* provider calls issued by the running Apply, in order
    execInvoked,  \* number of times the running Applier.Apply invoked its executor
    liveAtStart,  \* live when the running Apply was called
    applies,      \* number of Apply calls started so far
    prevResult,   \* result of the previous Apply ("none" for the first)
    \* internal/monitor: the diff functions
    dKind,        \* "ifaces": diffInterfaces is under call; "addrs": diffAddresses
    dPrev,        \* argument prev
    dCurr,        \* argument curr
    dOut,         \* the value returned
    dReturned,    \* the call has returned
    \* internal/monitor: Watcher.Run
    wFilter,      \* Watcher.Interface
    wWriterSet,   \* Watcher.Writer # nil
    wInterval,    \* Watcher.Interval
    wpc,          \* position inside Run
    wResult,      \* value returned by Run ("none" while it runs)
    wCurrent,     \* Run's local `current` snapshot
    wOutput,      \* lines Run passed to Watcher.Writer, in order
    wWriteErr,    \* a Write of Watcher.Writer has returned an error
    mResult,      \* value returned by the monitor command's RunE ("none" before it returns)
    wSnaps,       \* the snapshots collect() has returned without error, in order
    \* the apply-config command as main wires it
    cDryRun,      \* --dry-run is on the command line
    cFile,        \* value of --file on the command line ("absent" without the flag)
    cLoad,        \* outcome of reading and parsing the file ("ok" or the error)
    cIface,       \* Interface of the loaded configuration
    cAddrs,       \* Addresses of the loaded configuration
    cLive,        \* live addresses of the link
    cpc,          \* position inside the command
    cResult,      \* value the command returns ("none" while it runs)
    cOut,         \* lines written to the command's standard output
    cExecutor,    \* the executor Applier.Apply invoked ("none" if none)
    cMutations,   \* AddrAdd and AddrDel calls issued by the command
    wCancelled,   \* ctx.Done() is closed
    wTick,        \* ticker.C holds a tick
    wCollects,    \* number of collect() calls started
    wCalls,       \* number of provider calls made (ListInterfaces, InterfaceAddresses)
    wViewed,      \* interface names passed to Viewer.View
    wLate,        \* number of tick collections started after ctx.Done() was closed
    wCancelEarly, \* ctx.Done() was closed before the ticker delivered its first tick
    wLastErr      \* error the provider returned during the latest collect() ("none" if none)

applyVars == <<iface, addrs, entry, hasExecutor, hasProvider, live, pc, result,
               desired, families, famIdx, current, addDone, delDone, log,
               execInvoked, liveAtStart, applies, prevResult>>

diffVars == <<dKind, dPrev, dCurr, dOut, dReturned>>

watchVars == <<wFilter, wWriterSet, wInterval, wpc, wResult, wCurrent, wOutput,
               wCancelled, wTick, wCollects, wCalls, wViewed, wLate, wLastErr,
               wCancelEarly, wWriteErr, mResult, wSnaps>>

cmdVars == <<cDryRun, cFile, cLoad, cIface, cAddrs, cLive, cpc, cResult, cOut, cExecutor,
             cMutations>>

vars == <<applyVars, diffVars, watchVars, cmdVars>>

\* no apply-config command is running
CmdIdle ==
    /\ cDryRun = FALSE
    /\ cFile = "absent"
    /\ cLoad = "none"
    /\ cIface = ""
    /\ cAddrs = <<>>
    /\ cLive = {}
    /\ cpc = "none"
    /\ cResult = "none"
    /\ cOut = <<>>
    /\ cExecutor = "none"
    /\ cMutations = <<>>

\* the diff functions are not under call
DiffIdle ==
    /\ dKind = "none"
    /\ dPrev = <<>>
    /\ dCurr = <<>>
    /\ dOut = <<>>
    /\ dReturned = FALSE

\* no Watcher is running
WatchIdle ==
    /\ wFilter = ""
    /\ wWriterSet = FALSE
    /\ wInterval = 0
    /\ wpc = "none"
    /\ wResult = "none"
    /\ wCurrent = <<>>
    /\ wOutput = <<>>
    /\ wCancelled = FALSE
    /\ wTick = FALSE
    /\ wCollects = 0
    /\ wCalls = 0
    /\ wViewed = {}
    /\ wLate = 0
    /\ wLastErr = "none"
    /\ wCancelEarly = FALSE
    /\ wWriteErr = FALSE
    /\ mResult = "none"
    /\ wSnaps = <<>>

\* Apply is not under call
ApplyIdle ==
    /\ iface = ""
    /\ addrs = <<>>
    /\ entry = "none"
    /\ hasExecutor = FALSE
    /\ hasProvider = FALSE
    /\ live = {}
    /\ pc = "none"
    /\ result = "none"
    /\ desired = <<>>
    /\ families = <<>>
    /\ famIdx = 1
    /\ current = <<>>
    /\ addDone = {}
    /\ delDone = {}
    /\ log = <<>>
    /\ execInvoked = 0
    /\ liveAtStart = {}
    /\ applies = 0
    /\ prevResult = "none"

cfgVars == <<iface, addrs, entry, hasExecutor, hasProvider>>

----------------------------------------------------------------------------
(* Bounds *)

MaxAddrs == 2

MaxApplies == 2

----------------------------------------------------------------------------
(* netlink / net library behaviour used by the executor *)

FAMILY_V4 == 2

FAMILY_V6 == 10

NoAddr == [ip |-> "", bits |-> 0, label |-> ""]

\* What net.ParseCIDR returns for the CIDR tokens of the model: the IP and
\* the prefix length, or an error. Two spellings of one IPv6 address parse
\* to the same IP.
ParseCIDR(tok) ==
    CASE tok = "10.0.0.10/24"    -> [ok |-> TRUE, ip |-> "10.0.0.10", bits |-> 24]
      [] tok = "2001:db8::10/64" -> [ok |-> TRUE, ip |-> "2001:db8::10", bits |-> 64]
      [] tok = "2001:DB8::10/64" -> [ok |-> TRUE, ip |-> "2001:db8::10", bits |-> 64]
      [] OTHER                   -> [ok |-> FALSE, ip |-> "", bits |-> 0]

\* net.IP.To4() # nil
To4(ip) == ip \in {"10.0.0.5", "10.0.0.10"}

\* netlink.ParseAddr: "$ip/$netmask $label", the label being optional.
ParseAddr(parts) ==
    LET s     == parts[1]
        label == IF Len(parts) > 1 THEN parts[2] ELSE ""
        m     == ParseCIDR(s)
    IN  IF m.ok
        THEN [ok |-> TRUE, addr |-> [ip |-> m.ip, bits |-> m.bits, label |-> label]]
        ELSE [ok |-> FALSE, addr |-> NoAddr]

\* net.IPNet.String(): "$ip/$prefixlen"
IPNetString(a) == a.ip \o "/" \o ToString(a.bits)

\* netlink.Addr.String(): strings.TrimSpace("$ipnet $label")
AddrString(a) ==
    IF a.label = "" THEN IPNetString(a) ELSE IPNetString(a) \o " " \o a.label

addrFamily(a) == IF To4(a.ip) THEN FAMILY_V4 ELSE FAMILY_V6

----------------------------------------------------------------------------
(* parseDesiredAddresses *)

EmptyMap == [k \in {} |-> NoAddr]

SeqContains(s, x) == \E i \in 1..Len(s) : s[i] = x

RECURSIVE parseLoop(_, _, _, _)
parseLoop(raw, i, des, fams) ==
    IF i > Len(raw)
    THEN [err |-> FALSE, desired |-> des, families |-> fams]
    ELSE LET p == ParseAddr(raw[i])
         IN  IF ~p.ok
             THEN [err |-> TRUE, desired |-> EmptyMap, families |-> <<>>]
             ELSE LET key == AddrString(p.addr)
                      fam == addrFamily(p.addr)
                  IN  parseLoop(raw, i + 1,
                                (key :> p.addr) @@ des,
                                IF SeqContains(fams, fam) THEN fams
                                ELSE Append(fams, fam))

parseDesiredAddresses_KeepGoing(raw) ==
    LET valid == SelectSeq(raw, LAMBDA r : ParseAddr(r).ok)
    IN  parseLoop(valid, 1, EmptyMap, <<>>)

parseDesiredAddresses_RejectsEmpty(raw) ==
    IF Len(raw) = 0
    THEN [err |-> TRUE, desired |-> EmptyMap, families |-> <<>>]
    ELSE parseLoop(raw, 1, EmptyMap, <<>>)

parseDesiredAddresses_AllFamilies(raw) ==
    LET p == parseLoop(raw, 1, EmptyMap, <<>>)
    IN  IF p.err THEN p
        ELSE [err |-> FALSE, desired |-> p.desired,
              families |-> <<FAMILY_V4, FAMILY_V6>>]

parseDesiredAddresses(raw) == parseLoop(raw, 1, EmptyMap, <<>>)

----------------------------------------------------------------------------
(* The provider: a link whose address set is `live` *)

\* AddrList(link, family): the live addresses of that family
ProviderAddrList(lv, family) == {a \in lv : addrFamily(a) = family}

\* AddrAdd(link, addr) that succeeds: the address is on the link afterwards
ProviderAddrAdd(lv, a) == lv \cup {[ip |-> a.ip, bits |-> a.bits]}

\* AddrDel(link, addr) that succeeds: the address is no longer on the link
ProviderAddrDel(lv, a) == lv \ {[ip |-> a.ip, bits |-> a.bits]}

Call(op, name, family, a, ok) ==
    [op |-> op, name |-> name, family |-> family, addr |-> a, ok |-> ok]

----------------------------------------------------------------------------
(* Applier.Apply *)

ApplierValidate_NoAddressCheck(executorSet, interface, addresses) ==
    IF ~executorSet THEN "err_executor_not_configured"
    ELSE IF interface = "" THEN "err_interface_required"
    ELSE "ok"

\* the checks Applier.Apply makes before it invokes the executor
ApplierValidate(executorSet, interface, addresses) ==
    IF ~executorSet THEN "err_executor_not_configured"
    ELSE IF interface = "" THEN "err_interface_required"
    ELSE IF Len(addresses) = 0 THEN "err_address_required"
    ELSE "ok"

ApplierApply ==
    /\ pc = "call"
    /\ entry = "applier"
    /\ LET v == ApplierValidate(hasExecutor, iface, addrs)
       IN  IF v = "ok"
           THEN /\ execInvoked' = execInvoked + 1
                /\ pc' = "exec"
                /\ result' = result
           ELSE /\ execInvoked' = execInvoked
                /\ pc' = "done"
                /\ result' = v
    /\ UNCHANGED <<cfgVars, live, desired, families, famIdx, current, addDone,
                   delDone, log, liveAtStart, applies, prevResult>>
    /\ UNCHANGED <<diffVars, watchVars, cmdVars>>

\* NetlinkExecutor.Apply called by the caller itself
DirectCall ==
    /\ pc = "call"
    /\ entry = "direct"
    /\ pc' = "exec"
    /\ UNCHANGED <<cfgVars, live, result, desired, families, famIdx, current,
                   addDone, delDone, log, execInvoked, liveAtStart, applies,
                   prevResult>>
    /\ UNCHANGED <<diffVars, watchVars, cmdVars>>

----------------------------------------------------------------------------
(* NetlinkExecutor.Apply *)

\* first loop of Apply: a desired key is added unless current has it
NeedsAdd(key, cur) == key \notin DOMAIN cur

\* second loop of Apply: a current key is removed unless desired has it
NeedsDel(key, des) == key \notin DOMAIN des

PendingAdd(des, cur, done) == {k \in (DOMAIN des) \ done : NeedsAdd(k, cur)}

PendingDel(des, cur, done) == {k \in (DOMAIN cur) \ done : NeedsDel(k, des)}

NextPc_RemoveFirst(fams, idx, des, cur, aDone, dDone) ==
    IF idx <= Len(fams) THEN "list"
    ELSE IF PendingDel(des, cur, dDone) # {} THEN "del"
    ELSE IF PendingAdd(des, cur, aDone) # {} THEN "add"
    ELSE "return"

\* where Apply is after a provider call that succeeded: still listing, in
\* the first loop, in the second loop, or at `return nil`
NextPc(fams, idx, des, cur, aDone, dDone) ==
    IF idx <= Len(fams) THEN "list"
    ELSE IF PendingAdd(des, cur, aDone) # {} THEN "add"
    ELSE IF PendingDel(des, cur, dDone) # {} THEN "del"
    ELSE "return"

\* pc and result after a step: `return nil` ends the call
Goto(p) ==
    IF p = "return"
    THEN pc' = "done" /\ result' = "nil"
    ELSE pc' = p /\ result' = result

Fail_Swallowed(err) == pc' = pc /\ result' = result

\* `return err`
Fail(err) == pc' = "done" /\ result' = err

ApplyPrologue_IgnoresLookupError(ok, raw) ==
    LET p == parseDesiredAddresses(raw)
    IN  IF p.err
        THEN [err |-> "err_parse", desired |-> EmptyMap, families |-> <<>>]
        ELSE [err |-> "", desired |-> p.desired, families |-> p.families]

\* Apply from the LinkByName result to the call of collectCurrent: the
\* lookup error is returned first, then the parse error
ApplyPrologue(ok, raw) ==
    IF ~ok
    THEN [err |-> "err_lookup", desired |-> EmptyMap, families |-> <<>>]
    ELSE LET p == parseDesiredAddresses(raw)
         IN  IF p.err
             THEN [err |-> "err_parse", desired |-> EmptyMap, families |-> <<>>]
             ELSE [err |-> "", desired |-> p.desired, families |-> p.families]

\* Apply up to collectCurrent: the Provider check, LinkByName and
\* parseDesiredAddresses
ApplyLinkByName ==
    /\ pc = "exec"
    /\ IF ~hasProvider
       THEN /\ Fail("err_provider_not_configured")
            /\ UNCHANGED <<log, desired, families>>
       ELSE \E ok \in BOOLEAN :
            /\ log' = Append(log, Call("LinkByName", iface, 0, NoAddr, ok))
            /\ LET r == ApplyPrologue(ok, addrs)
               IN  IF r.err # ""
                   THEN /\ Fail(r.err)
                        /\ UNCHANGED <<desired, families>>
                   ELSE /\ desired' = r.desired
                        /\ families' = r.families
                        /\ Goto(NextPc(r.families, 1, r.desired, EmptyMap, {}, {}))
    /\ UNCHANGED <<cfgVars, live, famIdx, current, addDone, delDone,
                   execInvoked, liveAtStart, applies, prevResult>>
    /\ UNCHANGED <<diffVars, watchVars, cmdVars>>

\* the body of collectCurrent's inner loop: index the listed addresses by
\* IPNet.String()
indexListed(cur, listed) ==
    LET new == {IPNetString(a) : a \in listed}
    IN  [k \in (DOMAIN cur) \cup new |->
            IF k \in new
            THEN LET a == CHOOSE x \in listed : IPNetString(x) = k
                 IN  [ip |-> a.ip, bits |-> a.bits, label |-> ""]
            ELSE cur[k]]

\* one iteration of collectCurrent's loop over families
ApplyAddrList ==
    /\ pc = "list"
    /\ famIdx <= Len(families)
    /\ \E ok \in BOOLEAN :
        /\ log' = Append(log, Call("AddrList", "", families[famIdx], NoAddr, ok))
        /\ IF ~ok
           THEN /\ Fail("err_list")
                /\ UNCHANGED <<famIdx, current>>
           ELSE LET cur == indexListed(current, ProviderAddrList(live, families[famIdx]))
                IN  /\ current' = cur
                    /\ famIdx' = famIdx + 1
                    /\ Goto(NextPc(families, famIdx + 1, desired, cur, addDone, delDone))
    /\ UNCHANGED <<cfgVars, live, desired, families, addDone, delDone,
                   execInvoked, liveAtStart, applies, prevResult>>
    /\ UNCHANGED <<diffVars, watchVars, cmdVars>>

\* one iteration of Apply's first loop that reaches AddrAdd
ApplyAddrAdd ==
    /\ pc = "add"
    /\ \E key \in PendingAdd(desired, current, addDone), ok \in BOOLEAN :
        /\ log' = Append(log, Call("AddrAdd", "", 0, desired[key], ok))
        /\ IF ~ok
           THEN /\ Fail("err_add")
                /\ UNCHANGED <<live, addDone>>
           ELSE /\ live' = ProviderAddrAdd(live, desired[key])
                /\ addDone' = addDone \cup {key}
                /\ Goto(NextPc(families, famIdx, desired, current,
                               addDone \cup {key}, delDone))
    /\ UNCHANGED <<cfgVars, desired, families, famIdx, current, delDone,
                   execInvoked, liveAtStart, applies, prevResult>>
    /\ UNCHANGED <<diffVars, watchVars, cmdVars>>

\* one iteration of Apply's second loop that reaches AddrDel
ApplyAddrDel ==
    /\ pc = "del"
    /\ \E key \in PendingDel(desired, current, delDone), ok \in BOOLEAN :
        /\ log' = Append(log, Call("AddrDel", "", 0, current[key], ok))
        /\ IF ~ok
           THEN /\ Fail("err_remove")
                /\ UNCHANGED <<live, delDone>>
           ELSE /\ live' = ProviderAddrDel(live, current[key])
                /\ delDone' = delDone \cup {key}
                /\ Goto(NextPc(families, famIdx, desired, current,
                               addDone, delDone \cup {key}))
    /\ UNCHANGED <<cfgVars, desired, families, famIdx, current, addDone,
                   execInvoked, liveAtStart, applies, prevResult>>
    /\ UNCHANGED <<diffVars, watchVars, cmdVars>>

\* the caller calls Apply again with the same configuration
Reapply ==
    /\ pc = "done"
    /\ applies < MaxApplies
    /\ applies' = applies + 1
    /\ prevResult' = result
    /\ liveAtStart' = live
    /\ pc' = "call"
    /\ result' = "none"
    /\ desired' = EmptyMap
    /\ families' = <<>>
    /\ famIdx' = 1
    /\ current' = EmptyMap
    /\ addDone' = {}
    /\ delDone' = {}
    /\ log' = <<>>
    /\ execInvoked' = 0
    /\ UNCHANGED <<cfgVars, live>>
    /\ UNCHANGED <<diffVars, watchVars, cmdVars>>

----------------------------------------------------------------------------
(* Inputs *)

RawAddrs == { <<"10.0.0.10/24">>, <<"10.0.0.10/24", "eth0">>,
              <<"2001:db8::10/64">>, <<"2001:DB8::10/64">>, <<"not-an-ip">> }

IfaceNames == {"", "eth0"}

LiveUniverse == { [ip |-> "10.0.0.5", bits |-> 24],
                  [ip |-> "10.0.0.10", bits |-> 24],
                  [ip |-> "2001:db8::5", bits |-> 64] }

AddrLists == UNION {[1..n -> RawAddrs] : n \in 0..MaxAddrs}

Init ==
    /\ iface \in IfaceNames
    /\ addrs \in AddrLists
    /\ entry \in {"applier", "direct"}
    /\ hasExecutor \in BOOLEAN
    /\ hasProvider \in BOOLEAN
    /\ entry = "direct" => hasExecutor
    /\ ~hasExecutor => hasProvider
    /\ live \in SUBSET LiveUniverse
    /\ liveAtStart = live
    /\ pc = "call"
    /\ result = "none"
    /\ desired = EmptyMap
    /\ families = <<>>
    /\ famIdx = 1
    /\ current = EmptyMap
    /\ addDone = {}
    /\ delDone = {}
    /\ log = <<>>
    /\ execInvoked = 0
    /\ applies = 1
    /\ prevResult = "none"
    /\ DiffIdle
    /\ WatchIdle
    /\ CmdIdle

Next ==
    \/ ApplierApply
    \/ DirectCall
    \/ ApplyLinkByName
    \/ ApplyAddrList
    \/ ApplyAddrAdd
    \/ ApplyAddrDel
    \/ Reapply

Spec == Init /\ [][Next]_vars

----------------------------------------------------------------------------
(* Vocabulary of the properties *)

IPNetOf(a) == [ip |-> a.ip, bits |-> a.bits]

Calls(op) == {i \in 1..Len(log) : log[i].op = op}

Mutations == Calls("AddrAdd") \cup Calls("AddrDel")

ParsedIdx == {i \in 1..Len(addrs) : ParseAddr(addrs[i]).ok}

AllParse == ParsedIdx = 1..Len(addrs)

\* the desired address set: IP and prefix length of every desired entry
DesiredNets == {IPNetOf(ParseAddr(addrs[i]).addr) : i \in ParsedIdx}

\* the families that have at least one address in the desired list
DesiredFamilies == {addrFamily(n) : n \in DesiredNets}

\* the live addresses of the queried families when Apply was called
CurrentNets == {n \in liveAtStart : addrFamily(n) \in DesiredFamilies}

CallsOn(op, n) == {i \in Calls(op) : IPNetOf(log[i].addr) = n}

ValidationErrors == {"err_interface_required", "err_address_required", "err_parse"}

ErrOf(op) ==
    CASE op = "LinkByName" -> "err_lookup"
      [] op = "AddrList"   -> "err_list"
      [] op = "AddrAdd"    -> "err_add"
      [] op = "AddrDel"    -> "err_remove"

Rank(op) ==
    CASE op = "LinkByName" -> 1
      [] op = "AddrList"   -> 2
      [] op = "AddrAdd"    -> 3
      [] op = "AddrDel"    -> 4

\* the live set obtained from lv by the successful mutations of calls[i..]
RECURSIVE Replay(_, _, _)
Replay(lv, calls, i) ==
    IF i > Len(calls) THEN lv
    ELSE LET c == calls[i]
         IN  Replay(IF c.ok /\ c.op = "AddrAdd" THEN lv \cup {IPNetOf(c.addr)}
                    ELSE IF c.ok /\ c.op = "AddrDel" THEN lv \ {IPNetOf(c.addr)}
                    ELSE lv,
                    calls, i + 1)

----------------------------------------------------------------------------
(* Properties *)

\* C1: an Apply in which every provider call succeeds calls AddrAdd exactly
\* once for each address (IP and prefix length) that is desired and not
\* current, AddrDel exactly once for each address that is current (in the
\* queried families) and not desired, and neither for an address in both.
C1_EditScript ==
    (pc = "done" /\ result = "nil") =>
        \A n \in DesiredNets \cup CurrentNets \cup
                 {IPNetOf(log[i].addr) : i \in Mutations} :
            /\ Cardinality(CallsOn("AddrAdd", n)) =
                   (IF n \in DesiredNets \ CurrentNets THEN 1 ELSE 0)
            /\ Cardinality(CallsOn("AddrDel", n)) =
                   (IF n \in CurrentNets \ DesiredNets THEN 1 ELSE 0)

\* C2: idempotence: an Apply that follows a successful Apply with the same
\* desired list, and any Apply that finds the current address set equal to
\* the desired one, issues no AddrAdd and no AddrDel.
C2_Idempotent ==
    /\ (applies >= 2 /\ prevResult = "nil") => Mutations = {}
    /\ (AllParse /\ CurrentNets = DesiredNets) => Mutations = {}

\* C3: after Apply returned nil, the live addresses of the families present
\* in the desired list are exactly the desired addresses.
C3_Converges ==
    (pc = "done" /\ result = "nil") =>
        {n \in live : addrFamily(n) \in DesiredFamilies} = DesiredNets

\* C4: Applier.Apply (with an executor configured) with an empty interface
\* name or an empty address list returns a validation error without invoking
\* the executor or any provider method; it invokes the executor exactly when
\* both are non-empty.
C4_ApplierValidates ==
    (entry = "applier" /\ hasExecutor) =>
        /\ (iface = "" \/ Len(addrs) = 0) =>
               /\ execInvoked = 0
               /\ log = <<>>
               /\ pc = "done" =>
                      result \in {"err_interface_required", "err_address_required"}
        /\ pc # "call" => (execInvoked = 1 <=> (iface # "" /\ Len(addrs) # 0))
        /\ execInvoked <= 1

C4_Witness ==
    /\ entry = "applier"
    /\ hasExecutor
    /\ pc = "done"
    /\ iface = "eth0"
    /\ Len(addrs) = 0
    /\ result = "err_address_required"
    /\ execInvoked = 0

\* C5 as stated: NetlinkExecutor.Apply called directly with an empty desired
\* list or an empty interface name returns a validation error and invokes no
\* provider method.
C5_ExecutorValidates ==
    (entry = "direct" /\ pc = "done" /\ (iface = "" \/ Len(addrs) = 0)) =>
        /\ result \in ValidationErrors
        /\ log = <<>>

\* C5 amended: NetlinkExecutor.Apply called directly (with a provider) does
\* not validate: its first provider call is LinkByName with the given name,
\* empty or not; with an empty desired list LinkByName is its only provider
\* call, the live addresses are left as they were, and it returns nil when
\* the lookup succeeds and the lookup error otherwise.
C5_ExecutorDoesNotValidate ==
    (entry = "direct" /\ hasProvider) =>
        /\ pc \notin {"call", "exec"} =>
               /\ Len(log) >= 1
               /\ log[1].op = "LinkByName"
               /\ log[1].name = iface
        /\ Len(addrs) = 0 =>
               /\ \A i \in 1..Len(log) : log[i].op = "LinkByName"
               /\ live = liveAtStart
               /\ pc = "done" =>
                      /\ Len(log) = 1
                      /\ result = (IF log[1].ok THEN "nil" ELSE "err_lookup")

C5_Witness ==
    /\ entry = "direct"
    /\ hasProvider
    /\ pc = "done"
    /\ iface = ""
    /\ Len(addrs) = 0
    /\ result = "nil"
    /\ Len(log) = 1
    /\ live # {}

\* C6: if any entry of the desired list is unparseable, wherever it stands,
\* Apply returns an error and issues no AddrList, AddrAdd or AddrDel.
C6_NoPartialReconciliation ==
    ~AllParse =>
        /\ \A i \in 1..Len(log) : log[i].op = "LinkByName"
        /\ live = liveAtStart
        /\ pc = "done" => result \notin {"nil", "none"}

C6_Witness ==
    /\ pc = "done"
    /\ result = "err_parse"
    /\ Len(addrs) = 2
    /\ ParseAddr(addrs[1]).ok
    /\ ~ParseAddr(addrs[2]).ok
    /\ Len(log) = 1
    /\ log[1].ok
    /\ live # {}

\* C7: if LinkByName fails, Apply returns the lookup error and LinkByName is
\* the only provider call it made.
C7_LookupFailureAborts ==
    \A i \in 1..Len(log) :
        (log[i].op = "LinkByName" /\ ~log[i].ok) =>
            /\ Len(log) = 1
            /\ pc = "done"
            /\ result = "err_lookup"
            /\ live = liveAtStart

C7_Witness ==
    /\ pc = "done"
    /\ result = "err_lookup"
    /\ Len(log) = 1
    /\ ~log[1].ok
    /\ Len(addrs) >= 1
    /\ AllParse

\* C8: the first failing provider call (AddrList, AddrAdd, AddrDel) ends
\* Apply with the matching error: it is the last call issued; nothing is
\* rolled back, the live state being the initial one with the successful
\* mutations applied in order; a listing failure leaves no mutation call and
\* an add failure leaves no removal.
C8_FirstFailureAborts ==
    /\ \A i \in 1..Len(log) :
           ~log[i].ok =>
               /\ i = Len(log)
               /\ pc = "done"
               /\ result = ErrOf(log[i].op)
               /\ log[i].op = "AddrList" => Mutations = {}
               /\ log[i].op = "AddrAdd" => Calls("AddrDel") = {}
    /\ live = Replay(liveAtStart, log, 1)

C8_Witness ==
    /\ pc = "done"
    /\ result = "err_remove"
    /\ \E i \in Calls("AddrAdd") :
           /\ log[i].ok
           /\ IPNetOf(log[i].addr) \in live \ liveAtStart
    /\ \E i \in Calls("AddrDel") :
           /\ ~log[i].ok
           /\ IPNetOf(log[i].addr) \in live

\* C9: within one Apply the provider calls are ordered: LinkByName once and
\* first, then every AddrList, then every AddrAdd, then every AddrDel.
C9_CallOrder ==
    /\ \A i, j \in 1..Len(log) : i < j => Rank(log[i].op) <= Rank(log[j].op)
    /\ Len(log) >= 1 => Calls("LinkByName") = {1}

C9_Witness ==
    /\ pc = "done"
    /\ result = "nil"
    /\ Cardinality(Calls("AddrList")) = 2
    /\ Calls("AddrAdd") # {}
    /\ Calls("AddrDel") # {}

\* C10: Apply calls AddrList once for each family that has an address in
\* the desired list (once Apply is past the listing) and never for a family
\* absent from it; live addresses of an absent family are never touched.
C10_OnlyDesiredFamilies ==
    /\ \A f \in {FAMILY_V4, FAMILY_V6} :
           LET n == Cardinality({i \in Calls("AddrList") : log[i].family = f})
           IN  /\ n <= (IF f \in DesiredFamilies THEN 1 ELSE 0)
               /\ (pc \in {"add", "del"} \/ result = "nil") =>
                      n = (IF f \in DesiredFamilies THEN 1 ELSE 0)
    /\ \A i \in Mutations : addrFamily(log[i].addr) \in DesiredFamilies
    /\ {n \in live : addrFamily(n) \notin DesiredFamilies} =
           {n \in liveAtStart : addrFamily(n) \notin DesiredFamilies}

C10_Witness ==
    /\ pc = "done"
    /\ result = "nil"
    /\ DesiredFamilies = {FAMILY_V4}
    /\ [ip |-> "2001:db8::5", bits |-> 64] \in live
    /\ Calls("AddrDel") # {}
    /\ Cardinality(Calls("AddrList")) = 1

\* C11: raw strings that denote the same IP and prefix length (repeated,
\* spelled differently, or carrying a label) have one key in the desired
\* set, and Apply issues at most one AddrAdd for that address.
C11_Canonical ==
    /\ DOMAIN desired # {} =>
           Cardinality(DOMAIN desired) = Cardinality(DesiredNets)
    /\ \A n \in DesiredNets : Cardinality(CallsOn("AddrAdd", n)) <= 1

\* C28: no Apply issues both an AddrAdd and an AddrDel for one IP and prefix
\* length: the key of a desired address and the key of a live address are
\* equal whenever the two have the same IP and prefix length, and an address
\* both desired and live is left untouched.
C28_NoAddAndDelOfSameAddress ==
    /\ \A i \in Calls("AddrAdd"), j \in Calls("AddrDel") :
           IPNetOf(log[i].addr) # IPNetOf(log[j].addr)
    /\ \A k \in DOMAIN desired, l \in DOMAIN current :
           IPNetOf(desired[k]) = IPNetOf(current[l]) => k = l
    /\ AllParse => \A n \in DesiredNets \cap CurrentNets :
                       CallsOn("AddrAdd", n) \cup CallsOn("AddrDel", n) = {}

----------------------------------------------------------------------------
(* internal/monitor: diffInterfaces and diffAddresses *)

MaxAddrSeq == 2

\* the strings of the model in Go's (byte-wise) string order
StrOrder ==
    <<"192.0.2.1/24", "198.51.100.7/24", "2001:db8::1/64", "eth0", "eth1", "eth2">>

StrPos(s) == CHOOSE i \in 1..Len(StrOrder) : StrOrder[i] = s

\* a < b on strings
StrLess(a, b) == StrPos(a) < StrPos(b)

\* sort.Strings of a slice filled from the keys of a map
RECURSIVE SortStrings(_)
SortStrings(S) ==
    IF S = {} THEN <<>>
    ELSE LET m == CHOOSE x \in S : \A y \in S : ~StrLess(y, x)
         IN  <<m>> \o SortStrings(S \ {m})

\* sort.Slice(xs, xs[i].Name < xs[j].Name) of a slice filled from a map
RECURSIVE SortByName(_)
SortByName(S) ==
    IF S = {} THEN <<>>
    ELSE LET m == CHOOSE x \in S : \A y \in S : ~StrLess(y.Name, x.Name)
         IN  <<m>> \o SortByName(S \ {m})

SeqRange(q) == {q[i] : i \in 1..Len(q)}

equalStrings(a, b) ==
    /\ Len(a) = Len(b)
    /\ \A i \in 1..Len(a) : a[i] = b[i]

sameInterface_IgnoresFlags(a, b) ==
    ~(a.Name # b.Name \/ a.HardwareAddr # b.HardwareAddr \/ a.MTU # b.MTU)

sameInterface(a, b) ==
    IF a.Name # b.Name \/ a.HardwareAddr # b.HardwareAddr \/ a.MTU # b.MTU
    THEN FALSE
    ELSE IF Len(a.Flags) # Len(b.Flags) THEN FALSE
    ELSE \A i \in 1..Len(a.Flags) : a.Flags[i] = b.Flags[i]

\* strings.Join
RECURSIVE Join(_, _)
Join(q, sep) ==
    IF Len(q) = 0 THEN ""
    ELSE IF Len(q) = 1 THEN q[1]
    ELSE q[1] \o sep \o Join(Tail(q), sep)

describeInterfaceChange_IgnoresMTU(before, after) ==
    LET hw    == IF before.HardwareAddr # after.HardwareAddr
                 THEN <<"HW " \o before.HardwareAddr \o "→" \o after.HardwareAddr>>
                 ELSE <<>>
        flags == IF ~equalStrings(before.Flags, after.Flags)
                 THEN <<"flags [" \o Join(before.Flags, ",") \o "]→["
                            \o Join(after.Flags, ",") \o "]">>
                 ELSE <<>>
        changes == hw \o flags
    IN  IF Len(changes) = 0 THEN <<"no visible field differences">> ELSE changes

describeInterfaceChange(before, after) ==
    LET mtu   == IF before.MTU # after.MTU
                 THEN <<"MTU " \o ToString(before.MTU) \o "→" \o ToString(after.MTU)>>
                 ELSE <<>>
        hw    == IF before.HardwareAddr # after.HardwareAddr
                 THEN <<"HW " \o before.HardwareAddr \o "→" \o after.HardwareAddr>>
                 ELSE <<>>
        flags == IF ~equalStrings(before.Flags, after.Flags)
                 THEN <<"flags [" \o Join(before.Flags, ",") \o "]→["
                            \o Join(after.Flags, ",") \o "]">>
                 ELSE <<>>
        changes == mtu \o hw \o flags
    IN  IF Len(changes) = 0 THEN <<"no visible field differences">> ELSE changes

\* the slices diffInterfaces fills from its two loops, before sorting
addedOf(prev, curr) == {curr[n] : n \in (DOMAIN curr) \ (DOMAIN prev)}

removedOf_OfCurr(prev, curr) == {curr[n] : n \in (DOMAIN curr) \ (DOMAIN prev)}

removedOf(prev, curr) == {prev[n] : n \in (DOMAIN prev) \ (DOMAIN curr)}

updatedOf(prev, curr) ==
    {[Name |-> n, Before |-> prev[n], After |-> curr[n]] :
        n \in {m \in (DOMAIN curr) \cap (DOMAIN prev) : ~sameInterface(prev[m], curr[m])}}

diffInterfaces_Unsorted(prev, curr) ==
    LET anyOrder(S) == SortByName(S)
        rev(q)      == [i \in 1..Len(q) |-> q[Len(q) + 1 - i]]
    IN  [added   |-> rev(anyOrder(addedOf(prev, curr))),
         removed |-> rev(anyOrder(removedOf(prev, curr))),
         updated |-> rev(anyOrder(updatedOf(prev, curr)))]

diffInterfaces(prev, curr) ==
    [added   |-> SortByName(addedOf(prev, curr)),
     removed |-> SortByName(removedOf(prev, curr)),
     updated |-> SortByName(updatedOf(prev, curr))]

diffStringSets_NoRemoved(old, new) ==
    [added   |-> SortStrings(SeqRange(new) \ SeqRange(old)),
     removed |-> <<>>]

diffStringSets_InputOrder(old, new) ==
    [added   |-> SelectSeq(new, LAMBDA v : v \notin SeqRange(old)),
     removed |-> SelectSeq(old, LAMBDA v : v \notin SeqRange(new))]

diffStringSets(old, new) ==
    LET oldSet == SeqRange(old)
        newSet == SeqRange(new)
    IN  [added   |-> SortStrings(newSet \ oldSet),
         removed |-> SortStrings(oldSet \ newSet)]

\* m[name] of a Go map: the zero value (nil slice) when the key is missing
MapGet(m, name) == IF name \in DOMAIN m THEN m[name] ELSE <<>>

RECURSIVE diffAddressesLoop(_, _, _, _, _)
diffAddressesLoop(names, i, prev, curr, changes) ==
    IF i > Len(names) THEN changes
    ELSE LET d == diffStringSets(MapGet(prev, names[i]), MapGet(curr, names[i]))
         IN  diffAddressesLoop(names, i + 1, prev, curr,
                 IF Len(d.added) = 0 /\ Len(d.removed) = 0 THEN changes
                 ELSE Append(changes, [Name |-> names[i], Added |-> d.added,
                                       Removed |-> d.removed]))

diffAddresses_CurrOnly(prev, curr) ==
    diffAddressesLoop(SortStrings(DOMAIN curr), 1, prev, curr, <<>>)

diffAddresses(prev, curr) ==
    diffAddressesLoop(SortStrings((DOMAIN prev) \cup (DOMAIN curr)), 1, prev, curr, <<>>)

(* the calls *)

CallDiffInterfaces ==
    /\ dKind = "ifaces"
    /\ ~dReturned
    /\ dOut' = diffInterfaces(dPrev, dCurr)
    /\ dReturned' = TRUE
    /\ UNCHANGED <<dKind, dPrev, dCurr, applyVars, watchVars, cmdVars>>

CallDiffAddresses ==
    /\ dKind = "addrs"
    /\ ~dReturned
    /\ dOut' = diffAddresses(dPrev, dCurr)
    /\ dReturned' = TRUE
    /\ UNCHANGED <<dKind, dPrev, dCurr, applyVars, watchVars, cmdVars>>

(* the arguments *)

DiffNames == {"eth0", "eth1", "eth2"}

BaseIface(n) ==
    [Name |-> n, HardwareAddr |-> "aa:bb", MTU |-> 1500, Flags |-> <<"up", "broadcast">>]

IfaceVariants(n) ==
    { BaseIface(n),
      [BaseIface(n) EXCEPT !.MTU = 1400],
      [BaseIface(n) EXCEPT !.HardwareAddr = "cc:dd"],
      [BaseIface(n) EXCEPT !.Flags = <<"broadcast", "up">>],
      [BaseIface(n) EXCEPT !.Flags = <<"up">>] }

\* maps keyed by interface name, as collect() builds them
IfaceMaps ==
    UNION { {f \in [S -> UNION {IfaceVariants(n) : n \in S}] :
                \A n \in S : f[n].Name = n} : S \in SUBSET DiffNames }

AddrUniverse == {"192.0.2.1/24", "2001:db8::1/64"}

AddrSeqs == UNION {[1..n -> AddrUniverse] : n \in 0..MaxAddrSeq}

AddrMapNames == {"eth0", "eth1"}

AddrMaps == UNION {[S -> AddrSeqs] : S \in SUBSET AddrMapNames}

InitDiff ==
    /\ ApplyIdle
    /\ WatchIdle
    /\ CmdIdle
    /\ dOut = <<>>
    /\ dReturned = FALSE
    /\ \/ dKind = "ifaces" /\ dPrev \in IfaceMaps /\ dCurr \in IfaceMaps
       \/ dKind = "addrs" /\ dPrev \in AddrMaps /\ dCurr \in AddrMaps

NextDiff ==
    \/ CallDiffInterfaces
    \/ CallDiffAddresses

SpecDiff == InitDiff /\ [][NextDiff]_vars

----------------------------------------------------------------------------
(* Properties of the diff functions (SpecDiff) *)

NamesOf(q) == {q[i].Name : i \in 1..Len(q)}

\* strictly ascending by Name
AscendingByName(q) == \A i, j \in 1..Len(q) : i < j => StrLess(q[i].Name, q[j].Name)

InterfacesDiffed == dKind = "ifaces" /\ dReturned

AddressesDiffed == dKind = "addrs" /\ dReturned

\* C12: diffInterfaces returns as added exactly the entities whose name is in
\* curr and not in prev, as removed exactly those whose name is in prev and
\* not in curr, and as updated only names in both; the names added, removed
\* and present in both partition names(prev) \cup names(curr), and no name
\* is in more than one output.
C12_Partition ==
    InterfacesDiffed =>
        LET P    == DOMAIN dPrev
            C    == DOMAIN dCurr
            A    == NamesOf(dOut.added)
            R    == NamesOf(dOut.removed)
            U    == NamesOf(dOut.updated)
            both == P \cap C
        IN  /\ A = C \ P
            /\ R = P \ C
            /\ U \subseteq both
            /\ Len(dOut.added) = Cardinality(A)
            /\ Len(dOut.removed) = Cardinality(R)
            /\ Len(dOut.updated) = Cardinality(U)
            /\ \A i \in 1..Len(dOut.added) : dOut.added[i] = dCurr[dOut.added[i].Name]
            /\ \A i \in 1..Len(dOut.removed) : dOut.removed[i] = dPrev[dOut.removed[i].Name]
            /\ A \cup R \cup both = P \cup C
            /\ A \cap R = {} /\ A \cap both = {} /\ R \cap both = {}
            /\ A \cap U = {} /\ R \cap U = {}

C12_Witness ==
    /\ InterfacesDiffed
    /\ NamesOf(dOut.added) = {"eth2"}
    /\ NamesOf(dOut.removed) = {"eth1"}
    /\ NamesOf(dOut.updated) = {"eth0"}

\* C13: for a name in both prev and curr diffInterfaces reports an update
\* exactly when name, hardware address, MTU or the flag sequence (in order)
\* differs; the update carries (prev[name], curr[name]) and its descriptor
\* list is not empty.
C13_UpdateIffFieldDiffers ==
    InterfacesDiffed =>
        /\ \A n \in (DOMAIN dPrev) \cap (DOMAIN dCurr) :
               (n \in NamesOf(dOut.updated)) <=>
                   \/ dPrev[n].Name # dCurr[n].Name
                   \/ dPrev[n].HardwareAddr # dCurr[n].HardwareAddr
                   \/ dPrev[n].MTU # dCurr[n].MTU
                   \/ dPrev[n].Flags # dCurr[n].Flags
        /\ \A i \in 1..Len(dOut.updated) :
               LET u == dOut.updated[i]
               IN  /\ u.Before = dPrev[u.Name]
                   /\ u.After = dCurr[u.Name]
                   /\ Len(describeInterfaceChange(u.Before, u.After)) >= 1

C13_Witness ==
    /\ InterfacesDiffed
    /\ \E i \in 1..Len(dOut.updated) :
           LET u == dOut.updated[i]
           IN  /\ u.Before.MTU = u.After.MTU
               /\ u.Before.HardwareAddr = u.After.HardwareAddr
               /\ u.Before.Flags = <<"up", "broadcast">>
               /\ u.After.Flags = <<"broadcast", "up">>
    /\ \E n \in (DOMAIN dPrev) \cap (DOMAIN dCurr) : n \notin NamesOf(dOut.updated)

AddedSet(n) == SeqRange(MapGet(dCurr, n)) \ SeqRange(MapGet(dPrev, n))

RemovedSet(n) == SeqRange(MapGet(dPrev, n)) \ SeqRange(MapGet(dCurr, n))

\* C14: diffAddresses returns one entry for each name of prev or curr whose
\* added set (curr[name] \ prev[name]) or removed set (prev[name] \
\* curr[name]) is not empty, a missing name counting as the empty set; the
\* entry carries exactly those two sets; no other entry is returned; entries
\* are in ascending name order, each name at most once.
C14_AddressDiff ==
    AddressesDiffed =>
        /\ \A n \in (DOMAIN dPrev) \cup (DOMAIN dCurr) :
               (n \in NamesOf(dOut)) <=> (AddedSet(n) # {} \/ RemovedSet(n) # {})
        /\ NamesOf(dOut) \subseteq (DOMAIN dPrev) \cup (DOMAIN dCurr)
        /\ \A i \in 1..Len(dOut) :
               /\ SeqRange(dOut[i].Added) = AddedSet(dOut[i].Name)
               /\ SeqRange(dOut[i].Removed) = RemovedSet(dOut[i].Name)
               /\ Len(dOut[i].Added) = Cardinality(AddedSet(dOut[i].Name))
               /\ Len(dOut[i].Removed) = Cardinality(RemovedSet(dOut[i].Name))
        /\ AscendingByName(dOut)

C14_Witness ==
    /\ AddressesDiffed
    /\ Len(dOut) = 2
    /\ "eth1" \notin DOMAIN dCurr
    /\ Len(dOut[2].Removed) = 2
    /\ Len(dOut[1].Added) = 1
    /\ Len(dOut[1].Removed) = 1

\* the same mapping up to the order and the repetition of each sequence
SameAddressSets(x, y) ==
    /\ DOMAIN x = DOMAIN y
    /\ \A n \in DOMAIN x : SeqRange(x[n]) = SeqRange(y[n])

\* C15: diffAddresses is order-insensitive: permuting or duplicating the
\* elements of an interface's address sequence in prev or in curr changes
\* neither the entries returned nor their contents and order. (Every pair
\* of arguments is a state, so the two conjuncts together cover a change of
\* both arguments.)
C15_OrderInsensitive ==
    AddressesDiffed =>
        /\ \A p \in {x \in AddrMaps : SameAddressSets(x, dPrev)} :
               diffAddresses(p, dCurr) = dOut
        /\ \A c \in {x \in AddrMaps : SameAddressSets(x, dCurr)} :
               diffAddresses(dPrev, c) = dOut

C15_Witness ==
    /\ AddressesDiffed
    /\ "eth0" \in DOMAIN dPrev
    /\ dPrev["eth0"] = <<"2001:db8::1/64", "192.0.2.1/24">>
    /\ "eth0" \notin DOMAIN dCurr
    /\ Len(dOut) = 1
    /\ dOut[1].Removed = <<"192.0.2.1/24", "2001:db8::1/64">>

\* C16: added, removed and updated are each in strictly ascending order of
\* interface name.
C16_SortedByName ==
    InterfacesDiffed =>
        /\ AscendingByName(dOut.added)
        /\ AscendingByName(dOut.removed)
        /\ AscendingByName(dOut.updated)

C16_Witness ==
    /\ InterfacesDiffed
    /\ Len(dOut.updated) = 2
    /\ Len(dOut.added) = 1
    /\ dOut.updated[1].Name = "eth0"
    /\ dOut.updated[2].Name = "eth2"

\* the Added and Removed sets of diffAddresses' entry for n (empty without one)
EntryAdded(n) ==
    UNION {SeqRange(dOut[i].Added) : i \in {j \in 1..Len(dOut) : dOut[j].Name = n}}

EntryRemoved(n) ==
    UNION {SeqRange(dOut[i].Removed) : i \in {j \in 1..Len(dOut) : dOut[j].Name = n}}

\* C29: the address diff is an edit script: for every name n the Added and
\* Removed sets of its entry are disjoint, and removing Removed from the
\* addresses of prev[n] and adding Added gives the addresses of curr[n].
C29_AddressEditScript ==
    AddressesDiffed =>
        \A n \in DiffNames :
            /\ EntryAdded(n) \cap EntryRemoved(n) = {}
            /\ (SeqRange(MapGet(dPrev, n)) \ EntryRemoved(n)) \cup EntryAdded(n)
                   = SeqRange(MapGet(dCurr, n))

\* one name lost an address and gained another, a second name lost its key
C29_Witness ==
    /\ AddressesDiffed
    /\ EntryAdded("eth0") # {}
    /\ EntryRemoved("eth0") # {}
    /\ "eth1" \in DOMAIN dPrev
    /\ "eth1" \notin DOMAIN dCurr
    /\ EntryRemoved("eth1") # {}

----------------------------------------------------------------------------
(* internal/monitor: Watcher.Run *)

\* tick collections a run may start
MaxTicks == 2

\* sort.Strings of a slice: repeated elements are kept
RECURSIVE SortSeqFrom(_, _)
SortSeqFrom(q, i) ==
    IF i > Len(StrOrder) THEN <<>>
    ELSE SelectSeq(q, LAMBDA x : x = StrOrder[i]) \o SortSeqFrom(q, i + 1)

sortStrings(q) == SortSeqFrom(q, 1)

\* m[k] = v on a Go map
MapPut(m, k, v) == [x \in (DOMAIN m) \cup {k} |-> IF x = k THEN v ELSE m[x]]

\* snapshot{}
EmptySnapshot == [interfaces |-> <<>>, addresses |-> <<>>]

\* what collect() hands back: the error it returns, the error a provider
\* reported, the snapshot, and the provider calls made so far
Collected(err, failed, snap, calls, viewed) ==
    [err |-> err, failed |-> failed, snap |-> snap, calls |-> calls, viewed |-> viewed]

\* the loop of collect() over the sorted listing; the provider call number
\* failAt fails (call 1 is ListInterfaces, the following are InterfaceAddresses)
RECURSIVE collectLoop(_, _, _, _, _, _, _, _)
collectLoop(list, i, filter, world, snap, calls, viewed, failAt) ==
    IF i > Len(list) THEN Collected("none", "none", snap, calls, viewed)
    ELSE LET ifc == list[i]
         IN  IF filter # "" /\ ifc.Name # filter
             THEN collectLoop(list, i + 1, filter, world, snap, calls, viewed, failAt)
             ELSE IF ifc.Name = ""
             THEN Collected("err_name_required", "none", EmptySnapshot, calls, viewed)
             ELSE IF calls + 1 = failAt
             THEN Collected("err_view", "err_view", EmptySnapshot, calls + 1,
                            viewed \cup {ifc.Name})
             ELSE collectLoop(list, i + 1, filter, world,
                      [interfaces |-> MapPut(snap.interfaces, ifc.Name, ifc),
                       addresses  |-> MapPut(snap.addresses, ifc.Name,
                                          sortStrings(MapGet(world.addrs, ifc.Name)))],
                      calls + 1, viewed \cup {ifc.Name}, failAt)

collectFinish_NoPlaceholder(r, filter) == r

\* the filtered interface is recorded even when the listing does not hold it
collectFinish(r, filter) ==
    IF r.err = "none" /\ filter # "" /\ filter \notin DOMAIN r.snap.interfaces
    THEN [r EXCEPT !.snap.addresses = MapPut(r.snap.addresses, filter, <<>>)]
    ELSE r

collect_SwallowsError(world, filter, failAt) ==
    IF failAt = 1 THEN Collected("none", "err_list", EmptySnapshot, 1, {})
    ELSE LET r == collectLoop(SortByName(world.ifaces), 1, filter, world,
                              EmptySnapshot, 1, {}, failAt)
         IN  collectFinish([r EXCEPT !.err = "none"], filter)

collect(world, filter, failAt) ==
    IF failAt = 1 THEN Collected("err_list", "err_list", EmptySnapshot, 1, {})
    ELSE collectFinish(collectLoop(SortByName(world.ifaces), 1, filter, world,
                                   EmptySnapshot, 1, {}, failAt), filter)

\* Watcher.Now of the run, formatted as RFC 3339
Timestamp == "2024-01-01T00:00:00Z"

\* the fraction of a second of Duration.String(): the milliseconds in three
\* digits without trailing zeros
FractionString(ms) ==
    IF ms % 100 = 0 THEN ToString(ms \div 100)
    ELSE IF ms % 10 = 0
    THEN (IF ms < 100 THEN "0" ELSE "") \o ToString(ms \div 10)
    ELSE (IF ms < 10 THEN "00" ELSE IF ms < 100 THEN "0" ELSE "") \o ToString(ms)

\* time.Duration.String() of a whole number d of milliseconds, 0 <= d < one minute
IntervalString(d) ==
    IF d = 0 THEN "0s"
    ELSE IF d < 1000 THEN ToString(d) \o "ms"
    ELSE IF d % 1000 = 0 THEN ToString(d \div 1000) \o "s"
    ELSE ToString(d \div 1000) \o "." \o FractionString(d % 1000) \o "s"

RECURSIVE listingLines(_, _, _)
listingLines(names, i, snap) ==
    IF i > Len(names) THEN <<>>
    ELSE LET ifc   == snap.interfaces[names[i]]
             adr   == MapGet(snap.addresses, names[i])
         IN  << " - " \o ifc.Name \o " (MTU=" \o ToString(ifc.MTU) \o ", HW="
                    \o ifc.HardwareAddr \o ")",
                IF Len(adr) = 0 THEN "   addresses: none"
                ELSE "   addresses: " \o Join(adr, ", ") >>
             \o listingLines(names, i + 1, snap)

StartedLine(interval) ==
    "[" \o Timestamp \o "] monitoring started (interval " \o IntervalString(interval) \o ")"

printInitial(snap, filter, interval) ==
    <<StartedLine(interval)>>
    \o (IF filter # "" THEN <<" - filter: " \o filter>> ELSE <<>>)
    \o (IF DOMAIN snap.interfaces = {}
        THEN IF filter = "" THEN <<"No interfaces detected yet">>
             ELSE <<"Waiting for " \o filter \o " to appear...">>
        ELSE listingLines(SortStrings(DOMAIN snap.interfaces), 1, snap))

Stamp == "[" \o Timestamp \o "] "

AddedLine(ifc) ==
    Stamp \o "interface " \o ifc.Name \o " added (MTU=" \o ToString(ifc.MTU)
          \o ", HW=" \o ifc.HardwareAddr \o ")"

RemovedLine(ifc) == Stamp \o "interface " \o ifc.Name \o " removed"

UpdatedLine(change) ==
    Stamp \o "interface " \o change.Name \o " updated: "
          \o Join(describeInterfaceChange(change.Before, change.After), ", ")

AddressLines_RemovedFirst(change) ==
    (IF Len(change.Removed) > 0
     THEN <<Stamp \o change.Name \o " addresses removed: " \o Join(change.Removed, ", ")>>
     ELSE <<>>)
    \o (IF Len(change.Added) > 0
        THEN <<Stamp \o change.Name \o " addresses added: " \o Join(change.Added, ", ")>>
        ELSE <<>>)

\* the address lines of one interface name: added, then removed
AddressLines(change) ==
    (IF Len(change.Added) > 0
     THEN <<Stamp \o change.Name \o " addresses added: " \o Join(change.Added, ", ")>>
     ELSE <<>>)
    \o (IF Len(change.Removed) > 0
        THEN <<Stamp \o change.Name \o " addresses removed: " \o Join(change.Removed, ", ")>>
        ELSE <<>>)

RECURSIVE FlatMap(_, _)
FlatMap(q, i) == IF i > Len(q) THEN <<>> ELSE AddressLines(q[i]) \o FlatMap(q, i + 1)

\* the lines of one tick: interfaces added, removed, updated, then addresses
reportChanges(prev, curr) ==
    LET d == diffInterfaces(prev.interfaces, curr.interfaces)
    IN  [i \in 1..Len(d.added) |-> AddedLine(d.added[i])]
        \o [i \in 1..Len(d.removed) |-> RemovedLine(d.removed[i])]
        \o [i \in 1..Len(d.updated) |-> UpdatedLine(d.updated[i])]
        \o FlatMap(diffAddresses(prev.addresses, curr.addresses), 1)

(* the providers: what a listing and the address lookups can return *)

Addr1 == "192.0.2.1/24"

Addr2 == "2001:db8::1/64"

Addr3 == "198.51.100.7/24"

World(ifaces, adr) == [ifaces |-> ifaces, addrs |-> adr]

Eth0Worlds ==
    { [i |-> {}, a |-> <<>>],
      [i |-> {BaseIface("eth0")}, a |-> <<Addr1>>],
      [i |-> {[BaseIface("eth0") EXCEPT !.MTU = 1400]}, a |-> <<Addr2, Addr3>>] }

Eth1Worlds ==
    { [i |-> {}, a |-> <<>>],
      [i |-> {BaseIface("eth1")}, a |-> <<>>],
      [i |-> {[BaseIface("eth1") EXCEPT !.HardwareAddr = "cc:dd", !.Flags = <<"up">>]}, a |-> <<Addr1>>] }

Worlds ==
    { World(x.i \cup y.i, [n \in {"eth0", "eth1"} |-> IF n = "eth0" THEN x.a ELSE y.a]) :
        x \in Eth0Worlds, y \in Eth1Worlds }

\* provider calls of one collect(): ListInterfaces and one lookup per interface
MaxCallsPerCollect == 3

FailPoints == 0..MaxCallsPerCollect

Filters == {"", "eth1"}

Intervals == {0, 1}

(* Run *)

Return_KeepsRunning(err) == wResult' = err /\ wpc' = wpc

\* return err
Return(err) == wResult' = err /\ wpc' = "terminated"

\* fmt.Fprintf of each line to Watcher.Writer; the value Fprintf returns is
\* dropped, so a failing sink only leaves its mark in wWriteErr
Write(lines, sinkFails) ==
    /\ wOutput' = wOutput \o lines
    /\ wWriteErr' = (wWriteErr \/ (sinkFails /\ Len(lines) > 0))

nextCurrent_Merged(cur, next) ==
    [interfaces |-> [n \in (DOMAIN cur.interfaces) \cup (DOMAIN next.interfaces) |->
                        IF n \in DOMAIN next.interfaces THEN next.interfaces[n]
                        ELSE cur.interfaces[n]],
     addresses  |-> [n \in (DOMAIN cur.addresses) \cup (DOMAIN next.addresses) |->
                        IF n \in DOMAIN next.addresses THEN next.addresses[n]
                        ELSE cur.addresses[n]]]

\* current = next
nextCurrent(cur, next) == next

Counted(r) ==
    /\ wCalls' = wCalls + r.calls
    /\ wViewed' = wViewed \cup r.viewed
    /\ wLastErr' = r.failed
    /\ wSnaps' = IF r.err = "none" THEN Append(wSnaps, r.snap) ELSE wSnaps

\* Run is entered: the two checks, then the first collect() starts
RunEnter ==
    /\ wpc = "start"
    /\ IF ~wWriterSet
       THEN Return("err_writer_required") /\ UNCHANGED wCollects
       ELSE IF wInterval <= 0
       THEN Return("err_interval") /\ UNCHANGED wCollects
       ELSE wpc' = "initializing" /\ wCollects' = wCollects + 1 /\ UNCHANGED wResult
    /\ UNCHANGED <<wFilter, wWriterSet, wInterval, wCurrent, wOutput, wCancelled,
                   wTick, wCalls, wViewed, wLate, wLastErr>>
    /\ UNCHANGED <<applyVars, diffVars, cmdVars, wCancelEarly, wWriteErr, mResult,
                   wSnaps>>

\* the first collect() returns; on success printInitial and the ticker starts
CollectFirst ==
    /\ wpc = "initializing"
    /\ \E w \in Worlds, f \in FailPoints, sinkFails \in BOOLEAN :
          LET r == collect(w, wFilter, f)
          IN  /\ Counted(r)
              /\ IF r.err # "none"
                 THEN Return(r.err) /\ UNCHANGED <<wCurrent, wOutput, wWriteErr>>
                 ELSE /\ wCurrent' = r.snap
                      /\ Write(printInitial(r.snap, wFilter, wInterval), sinkFails)
                      /\ wpc' = "polling"
                      /\ UNCHANGED wResult
    /\ UNCHANGED <<wFilter, wWriterSet, wInterval, wCancelled, wTick, wCollects, wLate>>
    /\ UNCHANGED <<applyVars, diffVars, cmdVars, wCancelEarly, mResult>>

\* the ticker delivers a tick (its channel holds one)
Tick ==
    /\ wpc \in {"polling", "collecting"}
    /\ ~wTick
    /\ wTick' = TRUE
    /\ UNCHANGED <<wFilter, wWriterSet, wInterval, wpc, wResult, wCurrent, wOutput,
                   wCancelled, wCollects, wCalls, wViewed, wLate, wLastErr>>
    /\ UNCHANGED <<applyVars, diffVars, cmdVars, wCancelEarly, wWriteErr, mResult,
                   wSnaps>>

\* the context is cancelled
Cancel ==
    /\ wpc \in {"start", "initializing", "polling", "collecting"}
    /\ ~wCancelled
    /\ wCancelled' = TRUE
    /\ wCancelEarly' = (~wTick /\ wCollects <= 1)
    /\ UNCHANGED <<wFilter, wWriterSet, wInterval, wpc, wResult, wCurrent, wOutput,
                   wTick, wCollects, wCalls, wViewed, wLate, wLastErr>>
    /\ UNCHANGED <<applyVars, diffVars, cmdVars, wWriteErr, mResult, wSnaps>>

\* select takes case <-ctx.Done()
SelectCancel ==
    /\ wpc = "polling"
    /\ wCancelled
    /\ Return("context_canceled")
    /\ UNCHANGED <<wFilter, wWriterSet, wInterval, wCurrent, wOutput, wCancelled,
                   wTick, wCollects, wCalls, wViewed, wLate, wLastErr>>
    /\ UNCHANGED <<applyVars, diffVars, cmdVars, wCancelEarly, wWriteErr, mResult,
                   wSnaps>>

\* select takes case <-ticker.C (any ready case may be taken): collect() starts
SelectTick ==
    /\ wpc = "polling"
    /\ wTick
    /\ wCollects < MaxTicks + 1
    /\ wTick' = FALSE
    /\ wpc' = "collecting"
    /\ wCollects' = wCollects + 1
    /\ wLate' = IF wCancelled THEN wLate + 1 ELSE wLate
    /\ UNCHANGED <<wFilter, wWriterSet, wInterval, wResult, wCurrent, wOutput,
                   wCancelled, wCalls, wViewed, wLastErr>>
    /\ UNCHANGED <<applyVars, diffVars, cmdVars, wCancelEarly, wWriteErr, mResult,
                   wSnaps>>

\* the collect() of a tick returns; on success reportChanges and current = next
CollectTick ==
    /\ wpc = "collecting"
    /\ \E w \in Worlds, f \in FailPoints, sinkFails \in BOOLEAN :
          LET r == collect(w, wFilter, f)
          IN  /\ Counted(r)
              /\ IF r.err # "none"
                 THEN Return(r.err) /\ UNCHANGED <<wCurrent, wOutput, wWriteErr>>
                 ELSE /\ Write(reportChanges(wCurrent, r.snap), sinkFails)
                      /\ wCurrent' = nextCurrent(wCurrent, r.snap)
                      /\ wpc' = "polling"
                      /\ UNCHANGED wResult
    /\ UNCHANGED <<wFilter, wWriterSet, wInterval, wCancelled, wTick, wCollects, wLate>>
    /\ UNCHANGED <<applyVars, diffVars, cmdVars, wCancelEarly, mResult>>

\* errors.Is(err, target) on errors that wrap nothing
ErrorsIs(err, target) == err = target

monitorExit_SwallowsAll(err) == "nil"

\* what RunE of the monitor command returns for the value Run returned
monitorExit(err) ==
    IF err # "nil"
    THEN IF ErrorsIs(err, "context_canceled") THEN "nil" ELSE err
    ELSE "nil"

\* watcher.Run has returned to RunE of the monitor command
MonitorReturn ==
    /\ wpc = "terminated"
    /\ mResult = "none"
    /\ mResult' = monitorExit(wResult)
    /\ UNCHANGED <<wFilter, wWriterSet, wInterval, wpc, wResult, wCurrent, wOutput,
                   wCancelled, wTick, wCollects, wCalls, wViewed, wLate, wLastErr,
                   wCancelEarly, wWriteErr, wSnaps>>
    /\ UNCHANGED <<applyVars, diffVars, cmdVars>>

InitWatch ==
    /\ ApplyIdle
    /\ DiffIdle
    /\ CmdIdle
    /\ wFilter \in Filters
    /\ wWriterSet \in BOOLEAN
    /\ wInterval \in Intervals
    /\ wCancelled \in BOOLEAN
    /\ wpc = "start"
    /\ wResult = "none"
    /\ wCurrent = EmptySnapshot
    /\ wOutput = <<>>
    /\ wTick = FALSE
    /\ wCollects = 0
    /\ wCalls = 0
    /\ wViewed = {}
    /\ wLate = 0
    /\ wLastErr = "none"
    /\ wCancelEarly = wCancelled
    /\ wWriteErr = FALSE
    /\ mResult = "none"
    /\ wSnaps = <<>>

NextWatch ==
    \/ MonitorReturn
    \/ RunEnter
    \/ CollectFirst
    \/ Tick
    \/ Cancel
    \/ SelectCancel
    \/ SelectTick
    \/ CollectTick

SpecWatch == InitWatch /\ [][NextWatch]_vars

----------------------------------------------------------------------------
(* Watcher.Run: properties *)

\* the states of the watcher as the specification names them
PhaseOf(p) ==
    IF p \in {"start", "initializing"} THEN "Initializing"
    ELSE IF p \in {"polling", "collecting"} THEN "Polling"
    ELSE "Terminated"

ProviderErrors == {"err_list", "err_view"}

\* C17: Run moves only along Initializing -> Polling -> Terminated; it enters
\* Polling only with a successful first collection and the initial report
\* written, leaves Polling only on cancellation or on a failed collection, and
\* once it has returned makes no provider call and writes no output.
C17_Lifecycle ==
    [][ /\ PhaseOf(wpc) # PhaseOf(wpc') =>
               <<PhaseOf(wpc), PhaseOf(wpc')>> \in
                   { <<"Initializing", "Polling">>, <<"Initializing", "Terminated">>,
                     <<"Polling", "Terminated">> }
        /\ (PhaseOf(wpc) = "Initializing" /\ PhaseOf(wpc') = "Polling") =>
               /\ wLastErr' = "none"
               /\ wCollects' = 1
               /\ wOutput' = printInitial(wCurrent', wFilter, wInterval)
        /\ (PhaseOf(wpc) = "Polling" /\ PhaseOf(wpc') = "Terminated") =>
               \/ wResult' = "context_canceled" /\ wCancelled
               \/ wResult' \in ProviderErrors /\ wResult' = wLastErr'
        /\ (wResult' # "none") <=> (PhaseOf(wpc') = "Terminated")
        /\ wResult # "none" =>
               /\ wOutput' = wOutput
               /\ wCalls' = wCalls
               /\ wCollects' = wCollects
               /\ wResult' = wResult
      ]_vars

\* Run has returned on cancellation after two tick collections, a tick pending
C17_Witness ==
    /\ wpc = "terminated"
    /\ wResult = "context_canceled"
    /\ wCollects = 3
    /\ wTick
    /\ Len(wOutput) > 2

\* C18: a failed collection (listing, or the lookup of any one interface)
\* terminates Run with that error; nothing is written when it is the first
\* collection, nothing is written for a failed tick, and the snapshot kept as
\* previous is left as it was.
C18_FailedCollection ==
    [][ wLastErr' # "none" =>
            /\ wpc' = "terminated"
            /\ wResult' = wLastErr'
            /\ wCollects' = 1 => wOutput' = <<>>
            /\ wOutput' = wOutput
            /\ wCurrent' = wCurrent
      ]_vars

\* a tick collection failed at the lookup of its second interface, after the
\* first collection had listed and looked up two interfaces
C18_Witness ==
    /\ wLastErr = "err_view"
    /\ wResult = "err_view"
    /\ wCollects = 2
    /\ wCalls = 6
    /\ Len(wOutput) = 5

\* C19: when the first collection succeeds and the context is cancelled before
\* the first tick, Run makes exactly one collection, writes the initial report
\* only and returns the cancellation.
C19_CancelBeforeFirstTick ==
    (wCancelEarly /\ Len(wOutput) > 0) =>
        /\ wCollects = 1
        /\ wOutput = printInitial(wCurrent, wFilter, wInterval)
        /\ wpc = "terminated" => wResult = "context_canceled"

\* C20: once the context is cancelled no tick collection is started.
C20_NoCollectionAfterCancel == wLate = 0

\* a first collection has succeeded, so wCurrent is a snapshot collect() built
SnapshotBuilt == Len(wOutput) > 0

\* C21: with a filter F every snapshot has interface keys within {F} and
\* address keys exactly {F}, no other interface is looked up, and when F
\* appears on a tick after being absent the tick reports F as added, followed
\* by its addresses (if any) as added.
C21_Filter ==
    [][ (wFilter # "" /\ SnapshotBuilt') =>
            /\ DOMAIN wCurrent'.interfaces \subseteq {wFilter}
            /\ DOMAIN wCurrent'.addresses = {wFilter}
            /\ wViewed' \subseteq {wFilter}
            /\ ( /\ SnapshotBuilt
                 /\ wFilter \notin DOMAIN wCurrent.interfaces
                 /\ wFilter \in DOMAIN wCurrent'.interfaces ) =>
                   wOutput' = wOutput
                       \o <<AddedLine(wCurrent'.interfaces[wFilter])>>
                       \o ( IF Len(wCurrent'.addresses[wFilter]) > 0
                            THEN <<Stamp \o wFilter \o " addresses added: "
                                     \o Join(wCurrent'.addresses[wFilter], ", ")>>
                            ELSE <<>> )
      ]_vars

\* eth1 was absent at the first collection and appeared with an address
C21_Witness ==
    /\ wFilter = "eth1"
    /\ Len(wOutput) = 5
    /\ wOutput[3] = "Waiting for eth1 to appear..."
    /\ wOutput[4] = AddedLine([BaseIface("eth1") EXCEPT !.HardwareAddr = "cc:dd", !.Flags = <<"up">>])
    /\ wOutput[5] = Stamp \o "eth1 addresses added: " \o Addr1
    /\ wViewed = {"eth1"}

\* C22: no error is swallowed: a failure reported by a collaborator of
\* Watcher.Run (the listing, an address lookup, a write to the sink) makes Run
\* return an error that is not the cancellation.
C22_NoSwallowedError ==
    (wWriteErr \/ wLastErr # "none") =>
        /\ wpc = "terminated"
        /\ wResult \notin {"none", "context_canceled"}

\* C23: the monitor command returns nil exactly when Run ended on the
\* cancellation, and returns Run's error unchanged otherwise, a failed provider
\* call in particular.
C23_MonitorExit ==
    mResult # "none" =>
        /\ (mResult = "nil") <=> (wResult = "context_canceled")
        /\ mResult = "nil" => wCancelled
        /\ mResult # "nil" => mResult = wResult
        /\ wLastErr # "none" => mResult = wLastErr

\* the command has returned nil after a tick collection and a cancellation
C23_Witness ==
    /\ mResult = "nil"
    /\ wCancelled
    /\ wCollects = 2
    /\ wLastErr = "none"


----------------------------------------------------------------------------
(* Watcher.Run: what the ticks report *)

\* the change notifications of the ticks that collected snaps[i+1] after snaps[i]
RECURSIVE TickReports(_, _)
TickReports(snaps, i) ==
    IF i >= Len(snaps) THEN <<>>
    ELSE reportChanges(snaps[i], snaps[i + 1]) \o TickReports(snaps, i + 1)

\* C25: each successful tick is diffed against the snapshot collected last
\* before it and then wholly replaces it: the previous snapshot of tick k+1 is
\* the snapshot collected at tick k, the output is the initial report followed
\* by the diffs of consecutive collected snapshots, and output is written only
\* by a step that completes a collection.
C25_SnapshotChaining ==
    [][ /\ Len(wSnaps') > 0 => wCurrent' = wSnaps'[Len(wSnaps')]
        /\ wOutput' # wOutput => Len(wSnaps') = Len(wSnaps) + 1
        /\ Len(wSnaps') = Len(wSnaps) + 1 =>
               wOutput' = printInitial(wSnaps'[1], wFilter, wInterval)
                              \o TickReports(wSnaps', 1)
        /\ (Len(wSnaps') = Len(wSnaps) + 1 /\ Len(wSnaps) > 0) =>
               wOutput' = wOutput \o reportChanges(wSnaps[Len(wSnaps)],
                                                   wSnaps'[Len(wSnaps')])
      ]_vars

\* two ticks after the first collection: the first saw an interface go, the
\* second saw what the first had seen and wrote nothing
C25_Witness ==
    /\ Len(wSnaps) = 3
    /\ "eth1" \in DOMAIN wSnaps[1].interfaces
    /\ "eth1" \notin DOMAIN wSnaps[2].interfaces
    /\ wSnaps[3] = wSnaps[2]
    /\ wOutput[Len(wOutput)] = RemovedLine(BaseIface("eth1"))


\* the lines a tick is to write for (prev, curr), from the sets of names
AddedNames(prev, curr) == (DOMAIN curr.interfaces) \ (DOMAIN prev.interfaces)

RemovedNames(prev, curr) == (DOMAIN prev.interfaces) \ (DOMAIN curr.interfaces)

UpdatedNames(prev, curr) ==
    {n \in (DOMAIN prev.interfaces) \cap (DOMAIN curr.interfaces) :
        prev.interfaces[n] # curr.interfaces[n]}

AddrAddedOf(prev, curr, n) ==
    SeqRange(MapGet(curr.addresses, n)) \ SeqRange(MapGet(prev.addresses, n))

AddrRemovedOf(prev, curr, n) ==
    SeqRange(MapGet(prev.addresses, n)) \ SeqRange(MapGet(curr.addresses, n))

RECURSIVE ExpectedAddressLines(_, _, _, _)
ExpectedAddressLines(names, i, prev, curr) ==
    IF i > Len(names) THEN <<>>
    ELSE LET a == AddrAddedOf(prev, curr, names[i])
             r == AddrRemovedOf(prev, curr, names[i])
         IN  (IF a # {} THEN <<Stamp \o names[i] \o " addresses added: "
                                  \o Join(SortStrings(a), ", ")>> ELSE <<>>)
             \o (IF r # {} THEN <<Stamp \o names[i] \o " addresses removed: "
                                     \o Join(SortStrings(r), ", ")>> ELSE <<>>)
             \o ExpectedAddressLines(names, i + 1, prev, curr)

ExpectedTickLines(prev, curr) ==
    LET added   == SortStrings(AddedNames(prev, curr))
        removed == SortStrings(RemovedNames(prev, curr))
        updated == SortStrings(UpdatedNames(prev, curr))
    IN  [i \in 1..Len(added) |-> AddedLine(curr.interfaces[added[i]])]
        \o [i \in 1..Len(removed) |-> RemovedLine(prev.interfaces[removed[i]])]
        \o [i \in 1..Len(updated) |->
               UpdatedLine([Name |-> updated[i], Before |-> prev.interfaces[updated[i]],
                            After |-> curr.interfaces[updated[i]]])]
        \o ExpectedAddressLines(
               SortStrings((DOMAIN prev.addresses) \cup (DOMAIN curr.addresses)),
               1, prev, curr)

\* the step completes a successful tick collection
TickDone == Len(wSnaps) > 0 /\ Len(wSnaps') = Len(wSnaps) + 1

\* C26: a successful tick writes one line per added interface, then one per
\* removed interface, then one per updated interface, then per interface name
\* in ascending order a line for its added addresses followed by a line for
\* its removed addresses (each only when non-empty), and nothing when the new
\* snapshot equals the previous one.
C26_TickLines ==
    [][ TickDone =>
            LET prev == wSnaps[Len(wSnaps)]
                curr == wSnaps'[Len(wSnaps')]
            IN  /\ wOutput' = wOutput \o ExpectedTickLines(prev, curr)
                /\ prev = curr => wOutput' = wOutput
      ]_vars

\* a tick saw eth1 appear with an address while eth0 changed MTU and swapped
\* its address for two others: eth0 has an added line and then a removed line
C26_Witness ==
    /\ Len(wSnaps) = 2
    /\ Len(wOutput) = 8
    /\ wOutput[4] = AddedLine([BaseIface("eth1") EXCEPT !.HardwareAddr = "cc:dd", !.Flags = <<"up">>])
    /\ wOutput[5] = Stamp \o "interface eth0 updated: MTU 1500→1400"
    /\ wOutput[6] = Stamp \o "eth0 addresses added: " \o Addr3 \o ", " \o Addr2
    /\ wOutput[7] = Stamp \o "eth0 addresses removed: " \o Addr1
    /\ wOutput[8] = Stamp \o "eth1 addresses added: " \o Addr1

\* an 'interface updated' line that carries only the fallback descriptor
FallbackLines ==
    {Stamp \o "interface " \o n \o " updated: no visible field differences" :
        n \in {"eth0", "eth1"}}

\* C27: no 'interface updated' notification carries the fallback descriptor;
\* each one written by a tick names an MTU, hardware address or flags delta.
C27_NoFallbackDescriptor ==
    [][ /\ \A i \in 1..Len(wOutput') : wOutput'[i] \notin FallbackLines
        /\ TickDone =>
               LET prev == wSnaps[Len(wSnaps)]
                   curr == wSnaps'[Len(wSnaps')]
               IN  \A n \in UpdatedNames(prev, curr) :
                       LET b == prev.interfaces[n]
                           a == curr.interfaces[n]
                       IN  /\ b.MTU # a.MTU \/ b.HardwareAddr # a.HardwareAddr
                                 \/ b.Flags # a.Flags
                           /\ describeInterfaceChange(b, a)
                                  # <<"no visible field differences">>
      ]_vars

\* ticks have reported a hardware address and flags change of eth1 and an MTU
\* change of eth0
C27_Witness ==
    /\ \E i \in 1..Len(wOutput) :
           wOutput[i] = Stamp \o "interface eth1 updated: HW aa:bb→cc:dd, "
                                  \o "flags [up,broadcast]→[up]"
    /\ \E i \in 1..Len(wOutput) :
           wOutput[i] = Stamp \o "interface eth0 updated: MTU 1500→1400"

----------------------------------------------------------------------------
(* the apply-config command: newApplyCmd with the Applier main builds *)

\* the flags newApplyCmd declares; cobra rejects any other flag
ApplyFlags == {"--file"}

\* the flags newApplyCmd marks required
RequiredFlags == {"--file"}

\* the executor main hands to NewApplier
MainExecutor == "console"

\* an address string of the configuration, as written in the file
RawString(parts) == Join(parts, " ")

\* the lines ConsoleExecutor.Apply writes
ConsoleLines(interface, addresses) ==
    <<"Applying configuration to " \o interface>>
    \o [i \in 1..Len(addresses) |-> " - " \o RawString(addresses[i])]

CmdReturn(err) == cResult' = err /\ cpc' = "done"

\* what cobra makes of the command line before RunE runs: an undeclared flag
\* is rejected while parsing, a required flag left out after parsing
ParseFlags(dryRun, file) ==
    IF dryRun /\ "--dry-run" \notin ApplyFlags THEN "err_unknown_flag"
    ELSE IF file = "absent" /\ "--file" \in RequiredFlags THEN "err_required_flag"
    ELSE "ok"

\* Loader.Load(path) of the Loader NewLoader builds; fileOutcome is what
\* reading and parsing the file at path gives
Load(path, fileOutcome) ==
    IF path = "" THEN "err_path_required"
    ELSE fileOutcome

\* cobra parses the command line
CmdFlags ==
    /\ cpc = "flags"
    /\ LET v == ParseFlags(cDryRun, cFile)
       IN  IF v # "ok"
           THEN CmdReturn(v)
           ELSE cpc' = "load" /\ UNCHANGED cResult
    /\ UNCHANGED <<cDryRun, cFile, cLoad, cIface, cAddrs, cLive, cOut, cExecutor,
                   cMutations>>
    /\ UNCHANGED <<applyVars, diffVars, watchVars>>

\* loader.Load(path)
CmdLoad ==
    /\ cpc = "load"
    /\ LET v == Load(cFile, cLoad)
       IN  IF v # "ok"
           THEN CmdReturn(v)
           ELSE cpc' = "apply" /\ UNCHANGED cResult
    /\ UNCHANGED <<cDryRun, cFile, cLoad, cIface, cAddrs, cLive, cOut, cExecutor,
                   cMutations>>
    /\ UNCHANGED <<applyVars, diffVars, watchVars>>

\* applier.Apply(cfg): the checks, then the executor the Applier was built with
CmdApply ==
    /\ cpc = "apply"
    /\ LET v == ApplierValidate(TRUE, cIface, cAddrs)
       IN  IF v # "ok"
           THEN CmdReturn(v) /\ UNCHANGED cExecutor
           ELSE cExecutor' = MainExecutor /\ cpc' = "executor" /\ UNCHANGED cResult
    /\ UNCHANGED <<cDryRun, cFile, cLoad, cIface, cAddrs, cLive, cOut, cMutations>>
    /\ UNCHANGED <<applyVars, diffVars, watchVars>>

\* ConsoleExecutor.Apply: the write number failAt fails (0: none does)
CmdConsoleApply ==
    /\ cpc = "executor"
    /\ cExecutor = "console"
    /\ \E failAt \in 0..(Len(cAddrs) + 1) :
          LET lines == ConsoleLines(cIface, cAddrs)
          IN  IF failAt = 0
              THEN /\ cOut' = cOut \o lines
                   /\ cpc' = "report"
                   /\ UNCHANGED cResult
              ELSE /\ cOut' = cOut \o SubSeq(lines, 1, failAt - 1)
                   /\ CmdReturn("err_write")
    /\ UNCHANGED <<cDryRun, cFile, cLoad, cIface, cAddrs, cLive, cExecutor, cMutations>>
    /\ UNCHANGED <<applyVars, diffVars, watchVars>>

\* the command reports and returns nil; the value Fprintf returns is dropped,
\* so a failing write only leaves the line out
CmdReport ==
    /\ cpc = "report"
    /\ \E sinkFails \in BOOLEAN :
          cOut' = IF sinkFails THEN cOut
                  ELSE Append(cOut, "Configuration applied to " \o cIface)
    /\ CmdReturn("nil")
    /\ UNCHANGED <<cDryRun, cFile, cLoad, cIface, cAddrs, cLive, cExecutor, cMutations>>
    /\ UNCHANGED <<applyVars, diffVars, watchVars>>

\* what reading and parsing the file can give
LoadOutcomes == {"ok", "err_read", "err_parse_configuration"}

\* --file: left out, given empty, given a path
FileArgs == {"absent", "", "cfg.json"}

InitCmd ==
    /\ ApplyIdle
    /\ DiffIdle
    /\ WatchIdle
    /\ cDryRun \in BOOLEAN
    /\ cFile \in FileArgs
    /\ cLoad \in LoadOutcomes
    /\ IF cLoad = "ok"
       THEN cIface \in IfaceNames /\ cAddrs \in AddrLists
       ELSE cIface = "" /\ cAddrs = <<>>
    /\ cLive \in SUBSET LiveUniverse
    /\ cpc = "flags"
    /\ cResult = "none"
    /\ cOut = <<>>
    /\ cExecutor = "none"
    /\ cMutations = <<>>

NextCmd ==
    \/ CmdFlags
    \/ CmdLoad
    \/ CmdApply
    \/ CmdConsoleApply
    \/ CmdReport

SpecCmd == InitCmd /\ [][NextCmd]_vars

\* C24: without --dry-run apply-config applies the configuration through the
\* Netlink executor, and only with --dry-run through the console executor.
C24_NetlinkUnlessDryRun ==
    /\ cExecutor = "console" => cDryRun
    /\ (cpc = "done" /\ cResult = "nil" /\ ~cDryRun) => cExecutor = "netlink"
    /\ (cpc = "done" /\ cDryRun /\ cFile = "cfg.json" /\ cLoad = "ok"
            /\ cIface # "" /\ Len(cAddrs) > 0) =>
           cExecutor = "console"

====
